---- MODULE Spec2Model ----
(***************************************************************************)
(* lizard_rainapp.layers.RainAppAdapter: the cached time-series fetch      *)
(* (_cached_values), the bar-chart preparation (_render_graph), the        *)
(* rain statistics row (rain_stats) and the return-period label            *)
(* (_t_to_string).                                                         *)
(*                                                                         *)
(* Time is counted in seconds.  A datetime is a record                     *)
(*   [wall |-> seconds on its own clock, aware |-> has tzinfo,             *)
(*    off |-> utcoffset of its tzinfo in seconds (0 when naive)].          *)
(* Python's None is the empty tuple <<>>, a value x that may be None is    *)
(* carried as <<x>>.  Rainfall values are integers (tenths of a mm).       *)
(***************************************************************************)
EXTENDS Integers, Sequences, FiniteSets, TLC

VARIABLES
    provider,   \* the series the external time-series source holds
    cache,      \* django cache: key -> [values, expires]
    now,        \* wall clock of the cache backend, seconds
    ret,        \* what the last call of _cached_values / _render_graph did
    args,       \* the arguments of the rain_stats call under study
    stat        \* what that rain_stats call did

vars == <<provider, cache, now, ret, args, stat>>

---------------------------------------------------------------------------
(* Bounds of the model *)

MaxObs == 2          \* observations the provider holds, at most
MaxNow == 300        \* the clock stops here
MaxLen == 3          \* length of a series handed to rain_stats, at most

---------------------------------------------------------------------------
(* datetime *)

Hour == 3600
Day == 86400

None == <<>>
Some(x) == <<x>>

Naive(w) == [wall |-> w, aware |-> FALSE, off |-> 0]
Aware(w, o) == [wall |-> w, aware |-> TRUE, off |-> o]

\* the point in time an aware datetime denotes, in UTC seconds
Instant(d) == d.wall - d.off

\* d.replace(tzinfo=tz): the clock reading stays, the offset is swapped
ReplaceTzinfo(d, o) == Aware(d.wall, o)

\* d.astimezone(tz) for an aware d: same instant, other clock
AsTimezone(d, o) == Aware(d.wall - d.off + o, o)

\* d + timedelta
Plus(d, td) == [d EXCEPT !.wall = @ + td]

\* d1 < d2 for two aware datetimes: Python compares the instants
Before(d1, d2) == Instant(d1) < Instant(d2)

\* datetime.datetime(d.year, d.month, d.day): midnight of d's own clock, naive
Midnight(d) == Naive((d.wall \div Day) * Day)

\* datetime.isoformat(): the clock reading, and the offset when there is one
IsoFormat(d) == IF d.aware THEN <<d.wall, d.off>> ELSE <<d.wall>>

\* iso8601.parse_date(s): a string without offset is read as UTC
ParseDate(s) == IF Len(s) = 2 THEN Aware(s[1], s[2]) ELSE Aware(s[1], 0)

UTC == 0
\* settings.TIME_ZONE as a fixed offset (Europe/Amsterdam, winter)
SiteTz == 3600

\* RainAppAdapter._to_utc for one datetime
to_utc(d) ==
    IF ~d.aware THEN AsTimezone(Aware(d.wall, SiteTz), UTC)
    ELSE AsTimezone(d, UTC)

UNIT_TO_TIMEDELTA ==
    [u \in {"mm/24hr", "mm/24h", "mm/3hr", "mm/3h", "mm/hr", "mm/h", "mm/5min"} |->
        CASE u \in {"mm/24hr", "mm/24h"} -> 24 * Hour
          [] u \in {"mm/3hr", "mm/3h"} -> 3 * Hour
          [] u \in {"mm/hr", "mm/h"} -> Hour
          [] OTHER -> 300]

---------------------------------------------------------------------------
(* sequences *)

RECURSIVE SortedSeq(_)
SortedSeq(S) ==
    IF S = {} THEN <<>>
    ELSE LET m == CHOOSE x \in S : \A y \in S : x <= y
         IN <<m>> \o SortedSeq(S \ {m})

Map(f(_), s) == [i \in 1..Len(s) |-> f(s[i])]

---------------------------------------------------------------------------
(* The external collaborators of _cached_values *)

\* identifier['location']; source, filter and parameter are fixed per adapter
Location == "loc"

\* an observation as FewsJdbc.values returns it
Obs(dt, v, u) == [datetime |-> dt, value |-> v, unit |-> u]

\* self.values(identifier, start, end): what the provider holds with its
\* timestamp in [start, end]; the bounds are UTC, with or without tzinfo
values(identifier, start_date, end_date) ==
    SelectSeq(provider, LAMBDA o : /\ Instant(start_date) <= Instant(o.datetime)
                                   /\ Instant(o.datetime) <= Instant(end_date))

\* cache.get(key): None when the key is absent or its entry has expired
cache_get(key) ==
    IF key \in DOMAIN cache /\ now < cache[key].expires
    THEN Some(cache[key].values) ELSE None

\* cache.set(key, vals, timeout)
cache_set(key, vals, timeout) ==
    [k \in DOMAIN cache \cup {key} |->
        IF k = key THEN [values |-> vals, expires |-> now + timeout] ELSE cache[k]]

---------------------------------------------------------------------------
(* RainAppAdapter._cached_values *)

CACHE_TIMEOUT == 300

start_date_cache(start_date) == Midnight(start_date)
end_date_cache(end_date) == Plus(Midnight(end_date), Day)

\* hash('%s::%s::%s::%s::%s::%s' % ...): taken as collision free.  The two
\* naive datetimes print as their clock readings.
cache_key(identifier, start_date, end_date) ==
    <<identifier, start_date_cache(start_date).wall, end_date_cache(end_date).wall>>

\* `if not values`: an empty cached series taken for a miss
is_miss_falsy(got) == got = None \/ got[1] = <<>>

\* `if values is None`
is_miss(got) == got = None

\* the bounds the provider is asked for on a miss
fetch_range(start_date, end_date) == <<start_date, end_date>>

\* value['datetime_str'] = value['datetime'].isoformat(); del value['datetime']
to_str(v) == [datetime_str |-> IsoFormat(v.datetime), value |-> v.value, unit |-> v.unit]

\* value['datetime'] = iso8601.parse_date(value['datetime_str']); del ...
from_str(v) == Obs(ParseDate(v.datetime_str), v.value, v.unit)

\* start_date.replace(tzinfo=values[0]['datetime'].tzinfo)
make_tz_aware(d, vals) == ReplaceTzinfo(d, vals[1].datetime.off)

\* while values and values[0]['datetime'] < start_date: del values[0]
RECURSIVE trim_front(_, _)
trim_front(vals, start_date) ==
    IF vals # <<>> /\ Before(vals[1].datetime, start_date)
    THEN trim_front(Tail(vals), start_date) ELSE vals

\* while values and values[-1]['datetime'] > end_date: del values[-1]
RECURSIVE trim_back(_, _)
trim_back(vals, end_date) ==
    IF vals # <<>> /\ Before(end_date, vals[Len(vals)].datetime)
    THEN trim_back(SubSeq(vals, 1, Len(vals) - 1), end_date) ELSE vals

\* lines 377-392, for a non-empty list of cached values
trim(vals, start_date, end_date) ==
    LET parsed == Map(from_str, vals)
    IN  trim_back(trim_front(parsed, make_tz_aware(start_date, parsed)),
                  make_tz_aware(end_date, parsed))

\* The whole method: its return value, the cache it leaves, and what it did.
cached_values(identifier, start_date, end_date) ==
    LET key == cache_key(identifier, start_date, end_date)
        got == cache_get(key)
        miss == is_miss(got)
        range == fetch_range(start_date, end_date)
        vals == IF miss THEN Map(to_str, values(identifier, range[1], range[2]))
                ELSE got[1]
    IN  [cache |-> IF miss THEN cache_set(key, vals, CACHE_TIMEOUT) ELSE cache,
         key |-> key,
         hit |-> ~miss,
         fetched |-> IF miss THEN Some(range) ELSE None,
         untrimmed |-> Map(from_str, vals),
         result |-> IF vals = <<>> THEN <<>> ELSE trim(vals, start_date, end_date)]

---------------------------------------------------------------------------
(* RainAppAdapter._render_graph, up to the drawing calls *)

\* graph.get_bar_width(unit_timedelta): the width of one sample, in seconds
get_bar_width(unit_timedelta) == unit_timedelta

\* lines 306-329: the bars handed to graph.axes.bar, None when nothing is drawn
bars(cached_value_result) ==
    LET dates_site_tz == Map(LAMBDA row : AsTimezone(row.datetime, SiteTz),
                             cached_value_result)
        vs == Map(LAMBDA row : row.value, cached_value_result)
        units == Map(LAMBDA row : row.unit, cached_value_result)
        unit == IF Len(units) > 0 THEN units[1] ELSE ""
        known == unit \in DOMAIN UNIT_TO_TIMEDELTA
    IN  [drawn |-> vs # <<>>,
         bar_width |-> IF vs # <<>> /\ known
                       THEN get_bar_width(UNIT_TO_TIMEDELTA[unit]) ELSE 0,
         offset_dates |-> IF vs # <<>> /\ known
                          THEN Map(LAMBDA d : Plus(d, -1 * UNIT_TO_TIMEDELTA[unit]),
                                   dates_site_tz)
                          ELSE IF vs # <<>> THEN dates_site_tz ELSE <<>>,
         values |-> vs,
         ylabel |-> unit]

NoBars == [drawn |-> FALSE, bar_width |-> 0, offset_dates |-> <<>>,
           values |-> <<>>, ylabel |-> ""]

---------------------------------------------------------------------------
(* The inputs of the cache model *)

\* when the provider's observations were taken (UTC): 04:30 and 17:30 on
\* day 0, 00:30 on day 1
ObsInstants == {16200, 63000, 88200}

\* the utcoffset the provider's timestamps carry
ProviderOffsets == {0, 3600}

ProviderUnits == {"mm/hr", "mm/min"}

\* request bounds (UTC clock): 02:00, 05:00, 18:00 on day 0, 01:00 on day 1
ReqTimes == {7200, 18000, 64800, 90000}

ProviderSeries ==
    { [i \in 1..Cardinality(S) |->
          Obs(Aware(SortedSeq(S)[i] + o, o), 1, u)] :
        S \in {T \in SUBSET ObsInstants : Cardinality(T) <= MaxObs},
        o \in ProviderOffsets, u \in ProviderUnits }

\* a request bound at UTC clock reading w, with or without tzinfo
Bound(w, aware) == IF aware THEN Aware(w, UTC) ELSE Naive(w)

\* the same instant as _render_graph is handed it: aware, or naive on the
\* site's clock
SiteBound(w, aware) == IF aware THEN Aware(w, UTC) ELSE Naive(w + SiteTz)

NoRet == [op |-> "none", start |-> Naive(0), end |-> Naive(0), key |-> <<>>,
          hit |-> FALSE, fetched |-> None, untrimmed |-> <<>>, result |-> <<>>,
          bars |-> NoBars]

NoArgs == [values |-> <<>>, area_km2 |-> 0, td_window |-> 0,
           start_date_utc |-> Aware(0, UTC), end_date_utc |-> Aware(0, UTC)]
NoStat == [op |-> "none", raised |-> FALSE, row |-> None, max_values |-> None,
           t_call |-> None, t |-> None]

---------------------------------------------------------------------------
(* The cache model: one adapter, its cache and its provider *)

Init ==
    /\ provider \in ProviderSeries
    /\ cache = << >>
    /\ now = 0
    /\ ret = NoRet
    /\ args = NoArgs
    /\ stat = NoStat

\* _cached_values(identifier, start_date, end_date), called directly (html)
CachedValues(start_date, end_date) ==
    LET r == cached_values(Location, start_date, end_date)
    IN  /\ cache' = r.cache
        /\ ret' = [op |-> "cached_values", start |-> start_date, end |-> end_date,
                   key |-> r.key, hit |-> r.hit, fetched |-> r.fetched,
                   untrimmed |-> r.untrimmed, result |-> r.result, bars |-> NoBars]
        /\ UNCHANGED <<provider, now, args, stat>>

\* _render_graph(identifiers, start_date, end_date) with one identifier
RenderGraph(start_date, end_date) ==
    LET start_date_utc == to_utc(start_date)
        end_date_utc == to_utc(end_date)
        r == cached_values(Location, start_date_utc, end_date_utc)
    IN  /\ cache' = r.cache
        /\ ret' = [op |-> "render_graph", start |-> start_date_utc,
                   end |-> end_date_utc,
                   key |-> r.key, hit |-> r.hit, fetched |-> r.fetched,
                   untrimmed |-> r.untrimmed, result |-> r.result,
                   bars |-> bars(r.result)]
        /\ UNCHANGED <<provider, now, args, stat>>

\* time passes on the cache backend, which drops the entries whose timeout
\* has passed (cache.get would no longer return them)
TickStep == CACHE_TIMEOUT \div 2

Tick ==
    /\ now + TickStep <= MaxNow
    /\ now' = now + TickStep
    /\ cache' = [k \in {j \in DOMAIN cache : now' < cache[j].expires} |-> cache[k]]
    /\ UNCHANGED <<provider, ret, args, stat>>

Next ==
    \/ \E s \in ReqTimes, e \in ReqTimes, a \in BOOLEAN :
          s < e /\ CachedValues(Bound(s, a), Bound(e, a))
    \/ \E s \in ReqTimes, e \in ReqTimes, a \in BOOLEAN :
          s < e /\ RenderGraph(SiteBound(s, a), SiteBound(e, a))
    \/ Tick

Spec == Init /\ [][Next]_vars

\* the same adapter on a provider whose timestamps are all stamped UTC
InitUTC ==
    /\ Init
    /\ \A i \in 1..Len(provider) : provider[i].datetime.off = UTC

SpecUTC == InitUTC /\ [][Next]_vars

---------------------------------------------------------------------------
(* lizard_rainapp.calculations, called by rain_stats *)

\* the 2 seconds added to the end of the range
Tolerance == 2

\* advance_max taking in the observation at the window's end as well
RECURSIVE advance_max_inclusive(_, _, _, _)
advance_max_inclusive(vals, max_index, sum, window_end) ==
    IF max_index < Len(vals) /\ ~Before(window_end, vals[max_index + 1].datetime)
    THEN advance_max_inclusive(vals, max_index + 1,
                               sum + vals[max_index + 1].value, window_end)
    ELSE [index |-> max_index, sum |-> sum]

\* advance max_index while the next observation lies before the window's end
RECURSIVE advance_max(_, _, _, _)
advance_max(vals, max_index, sum, window_end) ==
    IF max_index < Len(vals) /\ Before(vals[max_index + 1].datetime, window_end)
    THEN advance_max(vals, max_index + 1, sum + vals[max_index + 1].value, window_end)
    ELSE [index |-> max_index, sum |-> sum]

\* advance min_index while it is below max_index and the observation at it
\* lies before the window's start
RECURSIVE advance_min(_, _, _, _, _)
advance_min(vals, min_index, max_index, sum, window_start) ==
    IF min_index < max_index /\ Before(vals[min_index + 1].datetime, window_start)
    THEN advance_min(vals, min_index + 1, max_index,
                     sum - vals[min_index + 1].value, window_start)
    ELSE [index |-> min_index, sum |-> sum]

\* the windows from window_start on, one hour apart, while they end within
\* the range; min_index and max_index count the observations already left
\* behind and already added
RECURSIVE windows(_, _, _, _, _, _, _)
windows(vals, td_window, window_start, end_date, min_index, max_index, sum) ==
    IF Instant(window_start) + td_window > Instant(end_date) + Tolerance
    THEN <<>>
    ELSE LET up == advance_max(vals, max_index, sum, Plus(window_start, td_window))
             lo == advance_min(vals, min_index, up.index, up.sum, window_start)
         IN  <<[value |-> lo.sum,
                datetime_start_utc |-> window_start,
                datetime_end_utc |-> Plus(window_start, td_window)]>>
             \o windows(vals, td_window, Plus(window_start, Hour), end_date,
                        lo.index, up.index, lo.sum)

moving_sum(vals, td_window, td_value, start_date, end_date) ==
    IF vals = <<>> THEN <<>>
    ELSE windows(vals, td_window, start_date, end_date, 0, 0, 0)

\* herhalingstijd(hours, area, rainfall) returns a return period T or None.
\* T is counted in 1/10000: 10000 is T = 1.0, 10001 is T = 1.0001.
TScale == 10000
HerhalingstijdResults ==
    {None, Some(TScale \div 2), Some(TScale), Some(TScale + 1), Some(5 * (TScale \div 2))}

---------------------------------------------------------------------------
(* RainAppAdapter._t_to_string and RainAppAdapter.rain_stats *)

\* _t_to_string with t >= 1 for t > 1
t_to_string_ge(t) ==
    IF t = None THEN <<"-">>
    ELSE IF t[1] >= TScale THEN <<"T = ", t[1] \div TScale>>
    ELSE <<"T <= 1">>

\* 'T = %i' % t prints the integer part of t; 'T <= 1' stands for the
\* label with the less-or-equal sign
t_to_string(t) ==
    IF t = None THEN <<"-">>
    ELSE IF t[1] > TScale THEN <<"T = ", t[1] \div TScale>>
    ELSE <<"T <= 1">>

\* the row for no values with a sum of nothing for its max
empty_row_zero(td_window) ==
    [td_window |-> td_window, max |-> Some(0), start |-> None, end |-> None,
     t |-> <<"-">>]

\* lines 408-413
empty_row(td_window) ==
    [td_window |-> td_window, max |-> None, start |-> None, end |-> None,
     t |-> t_to_string(None)]

\* a maximum that keeps the last of the greatest
RECURSIVE max_by_value_last(_)
max_by_value_last(max_values) ==
    IF Len(max_values) = 1 THEN max_values[1]
    ELSE LET rest == max_by_value_last(Tail(max_values))
         IN  IF max_values[1].value > rest.value THEN max_values[1] ELSE rest

\* max(max_values, key=lambda i: i['value']): the first of the greatest
RECURSIVE max_by_value(_)
max_by_value(max_values) ==
    IF Len(max_values) = 1 THEN max_values[1]
    ELSE LET rest == max_by_value(Tail(max_values))
         IN  IF max_values[1].value >= rest.value THEN max_values[1] ELSE rest

\* td_window.days * 24 + td_window.seconds / 3600.0, for whole hours
hours_of(td_window) == td_window \div Hour

\* lines 422-449: the row for the windows moving_sum returned; t is what
\* herhalingstijd returns if it is called
stat_row(max_values, td_window, t) ==
    IF max_values # <<>>
    THEN LET max_value == max_by_value(max_values)
         IN  [td_window |-> td_window,
              max |-> Some(max_value.value),
              start |-> Some(AsTimezone(max_value.datetime_start_utc, SiteTz)),
              end |-> Some(AsTimezone(max_value.datetime_end_utc, SiteTz)),
              t |-> t_to_string(t)]
    ELSE [td_window |-> td_window, max |-> None, start |-> None, end |-> None,
          t |-> t_to_string(None)]

\* The whole method.  raised: it ended in a KeyError; max_values: what
\* moving_sum returned, None when it was not called; t_call: the arguments
\* herhalingstijd was called with, None when it was not called.
rain_stats(vals, area_km2, td_window, start_date_utc, end_date_utc, t) ==
    IF vals = <<>>
    THEN [op |-> "rain_stats", raised |-> FALSE, row |-> Some(empty_row(td_window)),
          max_values |-> None, t_call |-> None, t |-> None]
    ELSE IF vals[1].unit \notin DOMAIN UNIT_TO_TIMEDELTA
    THEN [op |-> "rain_stats", raised |-> TRUE, row |-> None,
          max_values |-> None, t_call |-> None, t |-> None]
    ELSE LET td_value == UNIT_TO_TIMEDELTA[vals[1].unit]
             max_values == moving_sum(vals, td_window, td_value,
                                      start_date_utc, end_date_utc)
             called == max_values # <<>>
         IN  [op |-> "rain_stats", raised |-> FALSE,
              row |-> Some(stat_row(max_values, td_window, t)),
              max_values |-> Some(max_values),
              t_call |-> IF called
                         THEN Some(<<hours_of(td_window), area_km2,
                                     max_by_value(max_values).value>>)
                         ELSE None,
              t |-> IF called THEN t ELSE None]

---------------------------------------------------------------------------
(* The inputs of the statistics model *)

\* timestamps of the observations: 00:00, 01:00, 01:30, 02:00, 03:00 (UTC)
StatInstants == {0, 3600, 5400, 7200, 10800}
\* rainfall in tenths of a mm; a negative value is a status code
RainValues == {-1, 0, 2}
StatUnits == {"mm/hr", "mm/min"}
\* window durations: 1, 2 and 3 hours
Windows == {3600, 7200, 10800}
\* the range starts at 01:00 and ends at 01:59:59, 03:00 or 03:59:59
RangeStarts == {3600}
RangeEnds == {7199, 10800, 14399}
Areas == {10, 25}

RECURSIVE SeqsOver(_, _)
SeqsOver(S, n) ==
    IF n = 0 THEN {<<>>}
    ELSE {<<x>> \o s : x \in S, s \in SeqsOver(S, n - 1)}

StatSeries ==
    UNION { { [i \in 1..Cardinality(S) |->
                 Obs(Aware(SortedSeq(S)[i], UTC), vs[i], u)] :
              vs \in SeqsOver(RainValues, Cardinality(S)), u \in StatUnits } :
            S \in {T \in SUBSET StatInstants : Cardinality(T) <= MaxLen} }

---------------------------------------------------------------------------
(* The statistics model: one call of rain_stats on given arguments *)

InitStats ==
    /\ provider = <<>>
    /\ cache = << >>
    /\ now = 0
    /\ ret = NoRet
    /\ args \in [values : StatSeries, area_km2 : Areas, td_window : Windows,
                 start_date_utc : {Aware(w, UTC) : w \in RangeStarts},
                 end_date_utc : {Aware(w, UTC) : w \in RangeEnds}]
    /\ stat = NoStat

\* rain_stats(values, area_km2, td_window, start_date_utc, end_date_utc),
\* with t the answer of herhalingstijd
RainStats(t) ==
    /\ stat' = rain_stats(args.values, args.area_km2, args.td_window,
                          args.start_date_utc, args.end_date_utc, t)
    /\ UNCHANGED <<provider, cache, now, ret, args>>

NextStats == \E t \in HerhalingstijdResults : RainStats(t)

SpecStats == InitStats /\ [][NextStats]_vars

---------------------------------------------------------------------------
(* What the claims speak of *)

\* _cached_values or _render_graph has been called
Called == ret.op # "none"

\* the observations of series s whose instant lies in [lo, hi] (UTC seconds)
Within(s, lo, hi) ==
    SelectSeq(s, LAMBDA o : lo <= Instant(o.datetime) /\ Instant(o.datetime) <= hi)

\* the instants the bounds of the last request denote: they are UTC
ReqLo == ret.start.wall
ReqHi == ret.end.wall

\* the day-quantized range of the last request
DayLo == (ReqLo \div Day) * Day
DayHi == (ReqHi \div Day) * Day + Day

Ascending(s) ==
    \A i \in 1..Len(s) : \A j \in 1..Len(s) :
        i < j => Instant(s[i].datetime) <= Instant(s[j].datetime)

---------------------------------------------------------------------------
(* C1: a request served from the cache returns exactly the observations the *)
(* provider holds inside its own [start, end], as does the request that     *)
(* filled the cache; a wider second request loses nothing.                  *)
C1_EachRequestGetsItsOwnRange ==
    Called => ret.result = Within(provider, ReqLo, ReqHi)

(* C2: whatever the cache state, the returned sequence is ascending, every  *)
(* returned observation lies in [start, end], and the result is empty when  *)
(* the underlying series has no data.                                       *)
C2_AscendingWithinBounds ==
    Called =>
        /\ Ascending(ret.result)
        /\ \A i \in 1..Len(ret.result) :
              /\ ReqLo <= Instant(ret.result[i].datetime)
              /\ Instant(ret.result[i].datetime) <= ReqHi
        /\ (ret.untrimmed = <<>> => ret.result = <<>>)

(* C9: on a cache miss the provider is asked for the day-quantized range    *)
(* (midnight of the start day to the midnight after the end day) and the    *)
(* entry stored holds the provider's full series of that range.             *)
C9_MissFetchesDayRange ==
    (Called /\ ~ret.hit) =>
        /\ Instant(ret.fetched[1][1]) = DayLo
        /\ Instant(ret.fetched[1][2]) = DayHi
        /\ ret.untrimmed = Within(provider, DayLo, DayHi)

(* C10: coercing the UTC bounds to the first observation's timezone leaves  *)
(* their instants alone: what is kept of the cached series is exactly what  *)
(* lies in [start, end], and a naive and an aware bound for the same UTC    *)
(* time keep the same.                                                      *)
C10_TrimComparesInstants ==
    (Called /\ ret.untrimmed # <<>>) =>
        /\ ret.result = Within(ret.untrimmed, ReqLo, ReqHi)
        /\ trim(Map(to_str, ret.untrimmed), Naive(ReqLo), Naive(ReqHi))
             = trim(Map(to_str, ret.untrimmed), Aware(ReqLo, UTC), Aware(ReqHi, UTC))

---------------------------------------------------------------------------
(* What the claims about rain_stats speak of *)

StatsCalled == stat.op = "rain_stats"

\* moving_sum was called, and MaxValues is what it returned
MovingSumRan == StatsCalled /\ stat.max_values # None
MaxValues == stat.max_values[1]

RangeLo == Instant(args.start_date_utc)
RangeHi == Instant(args.end_date_utc)

\* the sum of the values of s with lo <= timestamp < hi, one by one
RECURSIVE BruteSum(_, _, _)
BruteSum(s, lo, hi) ==
    IF s = <<>> THEN 0
    ELSE (IF lo <= Instant(s[1].datetime) /\ Instant(s[1].datetime) < hi
          THEN s[1].value ELSE 0) + BruteSum(Tail(s), lo, hi)

\* how many windows of the duration, one hour apart from RangeLo on, end
\* no later than 2 seconds after RangeHi
FittingWindows ==
    Cardinality({k \in 0..((RangeHi - RangeLo) \div Hour + 1) :
                    RangeLo + k * Hour + args.td_window <= RangeHi + 2})

WindowTooLong == RangeLo + args.td_window > RangeHi + 2

UnknownUnit(s) == s # <<>> /\ s[1].unit \notin DOMAIN UNIT_TO_TIMEDELTA

UndefinedRow ==
    [td_window |-> args.td_window, max |-> None, start |-> None, end |-> None,
     t |-> <<"-">>]

(* C3: at every window, one hour apart from rangeStart on, the two-pointer  *)
(* rolling sum equals the sum of all observations with their timestamp in   *)
(* [windowStart, windowStart + d), also with observations before rangeStart *)
(* and with negative values.                                                *)
C3_RollingSumIsBruteForceSum ==
    MovingSumRan =>
        /\ Len(MaxValues) = FittingWindows
        /\ \A k \in 1..Len(MaxValues) :
              LET w == RangeLo + (k - 1) * Hour
              IN  /\ Instant(MaxValues[k].datetime_start_utc) = w
                  /\ MaxValues[k].value = BruteSum(args.values, w, w + args.td_window)

C3_Witness ==
    /\ MovingSumRan
    /\ Len(MaxValues) >= 2
    /\ MaxValues[1].value # MaxValues[2].value
    /\ \E i \in 1..Len(args.values) :
          Instant(args.values[i].datetime) < RangeLo /\ args.values[i].value > 0
    /\ \E i \in 1..Len(args.values) : args.values[i].value < 0

(* C4: a unit missing from UNIT_TO_TIMEDELTA never fails the computation:   *)
(* rain_stats returns a row and _render_graph draws bars of width 0 at the  *)
(* timestamps as they are; neither raises.                                  *)
C4_UnknownUnitNeverFails ==
    /\ (StatsCalled /\ UnknownUnit(args.values)) =>
          (~stat.raised /\ stat.row # None)
    /\ (ret.op = "render_graph" /\ UnknownUnit(ret.result)) =>
          /\ ret.bars.drawn
          /\ ret.bars.bar_width = 0
          /\ ret.bars.offset_dates =
                Map(LAMBDA row : AsTimezone(row.datetime, SiteTz), ret.result)

(* C5: rain_stats on an empty series returns, whatever the window, range    *)
(* and area, the row with the requested td_window, max, start and end None  *)
(* and the label "-"; it raises nothing and calls neither moving_sum nor    *)
(* herhalingstijd.                                                          *)
C5_EmptySeriesGivesUndefinedRow ==
    (StatsCalled /\ args.values = <<>>) =>
        /\ ~stat.raised
        /\ stat.row = Some(UndefinedRow)
        /\ stat.max_values = None
        /\ stat.t_call = None

C5_Witness ==
    /\ StatsCalled
    /\ args.values = <<>>
    /\ ~WindowTooLong
    /\ stat.row # None

(* C6: when rangeStart + windowDuration > rangeEnd + 2s on a non-empty      *)
(* series, moving_sum returns no window and rain_stats returns the row with *)
(* max, start and end None and the label "-", raising nothing and not       *)
(* calling herhalingstijd.                                                  *)
C6_WindowLongerThanRange ==
    (StatsCalled /\ args.values # <<>> /\ WindowTooLong) =>
        /\ ~stat.raised
        /\ stat.max_values = Some(<<>>)
        /\ stat.row = Some(UndefinedRow)
        /\ stat.t_call = None

(* C7: the label is "-" for T undefined, "T = n" with n the integer part of *)
(* T for T > 1 and "T <= 1" for any other T; T = 1.0 gives "T <= 1" and     *)
(* T = 1.0001 gives "T = 1"; and a row's label is "-" exactly when there is *)
(* no window or herhalingstijd returned None.                               *)
C7_LabelPartition ==
    (StatsCalled /\ ~stat.raised) =>
        LET label == stat.row[1].t
            T == stat.t
            nowindow == stat.max_values = None \/ stat.max_values = Some(<<>>)
        IN  /\ (T = None) => label = <<"-">>
            /\ (T # None /\ T[1] > TScale) => label = <<"T = ", T[1] \div TScale>>
            /\ (T # None /\ T[1] <= TScale) => label = <<"T <= 1">>
            /\ (T = Some(TScale)) => label = <<"T <= 1">>
            /\ (T = Some(TScale + 1)) => label = <<"T = ", 1>>
            /\ (label = <<"-">>) <=> (nowindow \/ (stat.t_call # None /\ T = None))
            /\ (stat.t_call = None) <=> nowindow

C7_Witness ==
    /\ StatsCalled
    /\ stat.t_call # None
    /\ stat.t = Some(TScale)
    /\ stat.row[1].t = <<"T <= 1">>

(* C8: for a non-empty list of windows the row reports the window with the  *)
(* greatest sum, the earliest one when several share it, and its max, start *)
(* and end all come from that one window.                                   *)
C8_FirstMaximalWindow ==
    (MovingSumRan /\ MaxValues # <<>>) =>
        \E i \in 1..Len(MaxValues) :
            /\ \A j \in 1..Len(MaxValues) : MaxValues[j].value <= MaxValues[i].value
            /\ \A j \in 1..(i - 1) : MaxValues[j].value < MaxValues[i].value
            /\ stat.row[1].max = Some(MaxValues[i].value)
            /\ stat.row[1].start # None
            /\ Instant(stat.row[1].start[1]) = Instant(MaxValues[i].datetime_start_utc)
            /\ stat.row[1].end # None
            /\ Instant(stat.row[1].end[1]) = Instant(MaxValues[i].datetime_end_utc)

C8_Witness ==
    /\ MovingSumRan
    /\ Len(MaxValues) >= 3
    /\ MaxValues[1].value < MaxValues[2].value
    /\ MaxValues[2].value = MaxValues[3].value
    /\ stat.row[1].max = Some(MaxValues[2].value)
    /\ Instant(stat.row[1].start[1]) = Instant(MaxValues[2].datetime_start_utc)

---------------------------------------------------------------------------
(* What the claim about the life of a cache entry speaks of *)

\* a step in which _cached_values ran: the clock stands still
CallStep == now' = now /\ vars' # vars

\* the entry under key k is in the cache and its timeout has not passed
Live(k) == k \in DOMAIN cache /\ now < cache[k].expires

(* C11: once a miss has stored an entry under key k, every request for k    *)
(* before its 5 minutes have passed is served from the cache without a call *)
(* of the provider, also when the stored series is empty; with no live      *)
(* entry (none yet, or expired) the request calls the provider once and     *)
(* stores a fresh entry with the full timeout.                              *)
C11_EntryServesUntilExpiry ==
    [][CallStep =>
          LET k == ret'.key
          IN  IF Live(k)
              THEN /\ ret'.hit
                   /\ ret'.fetched = None
                   /\ cache' = cache
                   /\ ret'.untrimmed = Map(from_str, cache[k].values)
              ELSE /\ ~ret'.hit
                   /\ Len(ret'.fetched) = 1
                   /\ k \in DOMAIN cache'
                   /\ cache'[k].expires = now + CACHE_TIMEOUT
                   /\ cache'[k].values = Map(to_str, ret'.untrimmed)
                   /\ \A j \in DOMAIN cache : j # k => (j \in DOMAIN cache' /\ cache'[j] = cache[j])
    ]_vars

\* an empty series, stored earlier, has served a request although the
\* provider holds data
C11_Witness ==
    /\ Called
    /\ ret.hit
    /\ ret.untrimmed = <<>>
    /\ provider # <<>>
    /\ now > 0
    /\ ret.key \in DOMAIN cache
    /\ cache[ret.key].values = <<>>
    /\ cache[ret.key].expires = CACHE_TIMEOUT

====
